---- MODULE Spec2Model ----
(***************************************************************************)
(* A model of Search.py: Tokenizer.tokenize / Token.finalizeExtraction,    *)
(* SearchExecution.executeSearch and the regular expressions it builds.    *)
(*                                                                         *)
(* Strings are sequences of one-character strings.  Offsets are Python's   *)
(* 0-based offsets; s[i] of the source is s[i+1] here.                     *)
(***************************************************************************)
EXTENDS Integers, Sequences, FiniteSets, TLC

\* ------------------------------------------------------------------------
\* Program constants (Search.py lines 10-14)
MATCH_WINDOW == 500
MAX_HITS == 8
PRECEDING_CHARS == 20
FOLLOWING_CHARS == 30
MAX_KWIC_CHARS == 100

\* ------------------------------------------------------------------------
\* Bounds of the explored inputs
MaxQueryLen == 5      \* queries: every string of at most this many characters
MaxPieces == 3        \* queries made of at most this many boolean words / separators
MaxDocLen == 5        \* documents: every string of at most this many characters
MaxRep == 18          \* documents: a word repeated at most this many times
GapSlack == 1         \* documents: two words MATCH_WINDOW +- GapSlack spaces apart

\* ------------------------------------------------------------------------
\* Characters and strings

UpperCase == <<"A","B","C","D","E","F","G","H","I","J","K","L","M",
               "N","O","P","Q","R","S","T","U","V","W","X","Y","Z">>
LowerCase == <<"a","b","c","d","e","f","g","h","i","j","k","l","m",
               "n","o","p","q","r","s","t","u","v","w","x","y","z">>
Digits == {"0","1","2","3","4","5","6","7","8","9"}

Range(s) == {s[k] : k \in DOMAIN s}

isalpha(c) == c \in Range(UpperCase) \cup Range(LowerCase)
isdigit(c) == c \in Digits
isalnum(c) == isalpha(c) \/ isdigit(c)

\* str.lower() on one character
lowerChar(c) ==
    IF c \in Range(UpperCase)
    THEN LowerCase[CHOOSE k \in DOMAIN UpperCase : UpperCase[k] = c]
    ELSE c

\* str.lower()
lower(s) == [k \in DOMAIN s |-> lowerChar(s[k])]

\* s[a:b] for 0 <= a, 0 <= b
Slice(s, a, b) == SubSeq(s, a + 1, IF b > Len(s) THEN Len(s) ELSE b)

\* s.find(c) != -1
Contains(s, c) == \E k \in DOMAIN s : s[k] = c

\* All strings of length at most n over the alphabet
StringsUpTo(alphabet, n) == UNION {[1..k -> alphabet] : k \in 0..n}

RECURSIVE Concat(_)
Concat(ss) == IF ss = <<>> THEN <<>> ELSE Head(ss) \o Concat(Tail(ss))

\* ------------------------------------------------------------------------
\* Token

DQ == "\""
None == ""

\* Token.__init__ with self.token = char (tokenize, lines 203-204)
NewToken(char) ==
    [token |-> <<char>>, isLiteral |-> FALSE, startSpecial |-> None,
     endSpecial |-> None, err |-> FALSE]

removeStartOrEndChars == {"'", ".", ":"}

\* self.token[len(self.token)-1]; the caller guards against the empty token
LastChar(t) == t[Len(t)]

\* Lines 75-108: the "trim the front of the word" loop
RECURSIVE TrimFront(_, _)
TrimFront(tk, startChar) ==
    IF ~(startChar < Len(tk.token)) THEN tk
    ELSE LET c == tk.token[startChar + 1] IN
         IF c = "(" THEN
            IF LastChar(tk.token) = ")" THEN tk
            ELSE TrimFront([tk EXCEPT !.token = Tail(tk.token)], startChar)
         ELSE IF c = DQ THEN
            IF LastChar(tk.token) = DQ
            THEN TrimFront([tk EXCEPT !.isLiteral = TRUE, !.startSpecial = DQ,
                                      !.endSpecial = DQ,
                                      !.token = Slice(tk.token, 1, Len(tk.token) - 1)],
                           startChar + 1)
            ELSE [tk EXCEPT !.startSpecial = DQ, !.isLiteral = TRUE,
                            !.token = Tail(tk.token)]
         ELSE IF c \in removeStartOrEndChars THEN
            TrimFront([tk EXCEPT !.token = Tail(tk.token)], startChar)
         ELSE tk

\* TrimBack with the test of line 116 left out: a trailing ) is always stripped
RECURSIVE TrimBackAlways(_, _)
TrimBackAlways(tk, endChar) ==
    IF ~(~tk.isLiteral /\ endChar >= 0) THEN tk
    ELSE IF tk.token[endChar + 1] = ")" \/ tk.token[endChar + 1] = DQ
            \/ tk.token[endChar + 1] \in removeStartOrEndChars
    THEN TrimBackAlways([tk EXCEPT !.token = Slice(tk.token, 0, endChar)], endChar - 1)
    ELSE tk

\* Lines 110-125: the "trim the end of the word" loop
RECURSIVE TrimBack(_, _)
TrimBack(tk, endChar) ==
    IF ~(~tk.isLiteral /\ endChar >= 0) THEN tk
    ELSE LET c == tk.token[endChar + 1] IN
         IF c = ")" THEN
            IF Contains(tk.token, "(") THEN tk
            ELSE TrimBack([tk EXCEPT !.token = Slice(tk.token, 0, endChar)], endChar - 1)
         ELSE IF c = DQ \/ c \in removeStartOrEndChars THEN
            TrimBack([tk EXCEPT !.token = Slice(tk.token, 0, endChar)], endChar - 1)
         ELSE tk

\* DropBoolean comparing without regard to case
DropBooleanAnyCase(tk) ==
    IF lower(tk.token) = <<"a","n","d">> \/ lower(tk.token) = <<"o","r">>
    THEN [tk EXCEPT !.token = <<>>]
    ELSE tk

\* Lines 127-132
DropBoolean(tk) ==
    IF tk.token = <<"A","N","D">> \/ tk.token = <<"O","R">>
    THEN [tk EXCEPT !.token = <<>>]
    ELSE tk

\* Token.finalizeExtraction (lines 42-132).  err records an IndexError.
finalizeExtraction(tk, inLit) ==
    IF inLit THEN
        IF Len(tk.token) = 0 THEN [tk EXCEPT !.isLiteral = TRUE, !.err = TRUE]
        ELSE IF LastChar(tk.token) = DQ
        THEN [tk EXCEPT !.isLiteral = TRUE, !.endSpecial = DQ,
                        !.token = Slice(tk.token, 0, Len(tk.token) - 1)]
        ELSE [tk EXCEPT !.isLiteral = TRUE]
    ELSE LET front == TrimFront(tk, 0)
             back == TrimBack(front, Len(front.token) - 1)
         IN  DropBoolean(back)

\* ------------------------------------------------------------------------
\* Clauses and patterns

\* executeSearch lines 343-357: consolidate the literal tokens into clauses
RECURSIVE CollectClauses(_, _)
CollectClauses(toks, currentClause) ==
    IF toks = <<>>
    THEN IF Len(currentClause) > 0 THEN <<currentClause>> ELSE <<>>
    ELSE LET token == Head(toks) IN
         IF token.isLiteral
         THEN CollectClauses(Tail(toks),
                  (IF Len(currentClause) > 0 THEN currentClause \o <<" ">>
                                             ELSE currentClause) \o token.token)
         ELSE (IF Len(currentClause) > 0 THEN <<currentClause>> ELSE <<>>)
              \o <<token.token>> \o CollectClauses(Tail(toks), <<>>)

\* Stable insertion of x into a sequence sorted by the key, after its equals
RECURSIVE InsertLongestFirst(_, _)
InsertLongestFirst(x, sorted) ==
    IF sorted = <<>> THEN <<x>>
    ELSE IF Len(x) > Len(Head(sorted)) THEN <<x>> \o sorted
    ELSE <<Head(sorted)>> \o InsertLongestFirst(x, Tail(sorted))

\* Line 361: andClauses.sort(lambda x, y: cmp(len(y), len(x))), a stable sort
RECURSIVE SortLongestFirst(_)
SortLongestFirst(cl) ==
    IF cl = <<>> THEN <<>>
    ELSE InsertLongestFirst(cl[Len(cl)], SortLongestFirst(SubSeq(cl, 1, Len(cl) - 1)))

\* The synonym file, one list per line (Synonyms.__init__, lines 287-295)
synonymLines == << << <<"a","b">>, <<"b","a">> >> >>

\* Synonyms.expandTerm (lines 297-304); a later line of the file overrides
expandTerm(term) ==
    LET having == {k \in DOMAIN synonymLines : term \in Range(synonymLines[k])}
    IN  IF having = {} THEN <<term>>
        ELSE synonymLines[CHOOSE k \in having : \A j \in having : j <= k]

\* re.escape (Python 2): a backslash before every non-alphanumeric character
RECURSIVE re_escape(_)
re_escape(t) ==
    IF t = <<>> THEN <<>>
    ELSE (IF isalnum(Head(t)) THEN <<Head(t)>> ELSE <<"\\", Head(t)>>)
         \o re_escape(Tail(t))

\* Lemmatizer.expandEquivalencies (lines 243-268), on the escaped term; the
\* result is regular-expression source
expandEquivalencies(term0) ==
    IF Len(term0) < 2 THEN term0
    ELSE LET term1 == IF term0[1] = "s" /\ isdigit(term0[2])
                      THEN <<"(","s","|","\\","u","0","0","a","7",")">> \o Tail(term0)
                      ELSE term0
             term == IF term1[1] = "p" /\ isdigit(term1[2])
                     THEN <<"(","p","|","\\","u","0","0","b","6",")">> \o Tail(term1)
                     ELSE term1
         IN  IF LastChar(term) = "s"
             THEN Slice(term, 0, Len(term) - 1) \o <<"[","s","]","*">>
             ELSE IF isalpha(LastChar(term))
             THEN term \o <<"[","s","]","*">>
             ELSE term

\* SearchExecution.wordBoundaries (line 330)
wordBoundaries == {" ", ".", ",", ":", ";", "\n", "\r", "\t", "(", ")", "[", "]"}

\* Lines 365-380: the alternatives of one clause's regex, in order.  Each is
\* wrapped by executeSearch in "(^|" wordBoundaries ")" ... "($|" wordBoundaries ")"
clauseRegex(clause) ==
    LET syns == expandTerm(lower(clause))
    IN  [k \in DOMAIN syns |-> expandEquivalencies(re_escape(syns[k]))]

\* ------------------------------------------------------------------------
\* re.compile / matcher.search for the regex syntax clauseRegex produces

\* Index of the first c in s at or after position k (1-based), 0 if none
RECURSIVE IndexFrom(_, _, _)
IndexFrom(s, c, k) ==
    IF k > Len(s) THEN 0 ELSE IF s[k] = c THEN k ELSE IndexFrom(s, c, k + 1)

\* An escape sequence inside the pattern: backslash + character is that very
\* character (a backslash before an ASCII letter that names no class, as in
\* "\u" under Python 2, is the letter itself)
RECURSIVE ParseLiteral(_)
ParseLiteral(src) ==
    IF src = <<>> THEN <<>>
    ELSE IF Head(src) = "\\" THEN <<src[2]>> \o ParseLiteral(Tail(Tail(src)))
    ELSE <<Head(src)>> \o ParseLiteral(Tail(src))

\* The body between the boundary groups, parsed: elems is a sequence of
\* elements, each a sequence of alternative literal strings (a literal
\* character is one alternative of one character); star is a trailing [s]*
RECURSIVE ParseBody(_)
ParseBody(src) ==
    IF src = <<>> THEN [elems |-> <<>>, star |-> FALSE]
    ELSE IF Head(src) = "\\" THEN
        LET rest == ParseBody(Tail(Tail(src)))
        IN  [rest EXCEPT !.elems = << <<<<src[2]>>>> >> \o @]
    ELSE IF Head(src) = "(" THEN
        LET bar == IndexFrom(src, "|", 1)
            close == IndexFrom(src, ")", 1)
            rest == ParseBody(SubSeq(src, close + 1, Len(src)))
        IN  [rest EXCEPT !.elems = << << ParseLiteral(SubSeq(src, 2, bar - 1)),
                                         ParseLiteral(SubSeq(src, bar + 1, close - 1)) >> >>
                                    \o @]
    ELSE IF Head(src) = "[" THEN [elems |-> <<>>, star |-> TRUE]
    ELSE LET rest == ParseBody(Tail(src))
         IN  [rest EXCEPT !.elems = << <<<<Head(src)>>>> >> \o @]

\* re.compile(regex, re.IGNORECASE|re.DOTALL): SearchMatcher (lines 218-220, 380)
SearchMatcher(clause) ==
    LET regex == clauseRegex(clause)
    IN  [regex |-> regex, matcher |-> [k \in DOMAIN regex |-> ParseBody(regex[k])]]

\* No match (None).  A match records start(), end() and the lengths of the
\* text captured by the leading and the trailing boundary group
NoMatch == [start |-> -1, end |-> -1, pre |-> 0, post |-> 0]

\* Does the literal string lit occur in s at offset q, before offset e? (IGNORECASE)
LitAt(lit, s, q, e) ==
    /\ q + Len(lit) <= e
    /\ \A k \in DOMAIN lit : lowerChar(s[q + k]) = lowerChar(lit[k])

\* The smallest element of a non-empty set of integers
Least(S) == CHOOSE x \in S : \A y \in S : x <= y

\* The length of the first alternative among those (ok) that match, or -1
PickLen(alts, ok) == IF ok = {} THEN -1 ELSE Len(alts[Least(ok)])

\* One element at offset q: the length of the text it matches, or -1.  The
\* alternatives of an element start with different characters, so at most
\* one of them matches and no backtracking into an element is needed.
AltLen(alts, s, q, e) == PickLen(alts, {k \in DOMAIN alts : LitAt(alts[k], s, q, e)})

\* Match the elements from offset q; the offset after them, or -1
RECURSIVE MatchElems(_, _, _, _)
RECURSIVE ElemsAfter(_, _, _, _, _)
MatchElems(elems, s, q, e) ==
    IF elems = <<>> THEN q
    ELSE ElemsAfter(Tail(elems), s, q, e, AltLen(Head(elems), s, q, e))

ElemsAfter(rest, s, q, e, n) ==
    IF n = -1 THEN -1 ELSE MatchElems(rest, s, q + n, e)

\* [s]* is greedy: the offset after the run of s at offset r
RECURSIVE SkipS(_, _, _)
SkipS(s, r, e) ==
    IF r < e /\ lowerChar(s[r + 1]) = "s" THEN SkipS(s, r + 1, e) ELSE r

\* The trailing [s]*, if any, after the elements ended at offset r0
StarEnd(star, s, r0, e) == IF r0 # -1 /\ star THEN SkipS(s, r0, e) ELSE r0

\* ($|wordBoundaries) at offset r: $ is tried first; it matches at the end of
\* the searched text (endpos) and before a newline that ends it.  After fewer
\* than all of the s the next character is an s, which neither alternative
\* matches, so the greedy run is the only one to try.
MatchEnd(s, p, pre, r, e) ==
    IF r = -1 THEN NoMatch
    ELSE IF r = e \/ (r = e - 1 /\ s[r + 1] = "\n")
    THEN [start |-> p, end |-> r, pre |-> pre, post |-> 0]
    ELSE IF r < e /\ s[r + 1] \in wordBoundaries
    THEN [start |-> p, end |-> r + 1, pre |-> pre, post |-> 1]
    ELSE NoMatch

\* One alternative, with the leading group already matched from p up to q
MatchBodyAt(body, s, p, q, e) ==
    MatchEnd(s, p, q - p, StarEnd(body.star, s, MatchElems(body.elems, s, q, e), e), e)

\* The first of the matches ms (a function on integers) that is a match
PickMatch(ms, ok) == IF ok = {} THEN NoMatch ELSE ms[Least(ok)]
FirstMatching(ms) == PickMatch(ms, {k \in DOMAIN ms : ms[k] # NoMatch})

\* (^|wordBoundaries): ^ is tried first and matches at offset 0 of the string
\* only, wherever the search starts; then a boundary character at offset p
MatchAltAt(body, s, p, e) ==
    FirstMatching([pre \in {0, 1} |->
        IF (pre = 0 /\ p = 0) \/ (pre = 1 /\ p < e /\ s[p + 1] \in wordBoundaries)
        THEN MatchBodyAt(body, s, p, p + pre, e)
        ELSE NoMatch])

\* The alternatives of the regex are tried in order at one offset
MatchAt(matcher, s, p, e) ==
    FirstMatching([k \in DOMAIN matcher |-> MatchAltAt(matcher[k], s, p, e)])

\* The leftmost match that starts in pos..e
SearchTo(matcher, s, pos, e) ==
    FirstMatching([p \in pos..e |-> MatchAt(matcher, s, p, e)])

\* matcher.search(string, pos, endpos): the text is searched as if it ended
\* at endpos
search(matcher, s, pos, endpos) ==
    SearchTo(matcher, s, pos, IF endpos > Len(s) THEN Len(s) ELSE endpos)

\* ------------------------------------------------------------------------
\* Hits

\* HitPosition (lines 228-230)
HitPosition(start, end) == [start |-> start, end |-> end]

\* Lines 407-412 and 462-467: trim the captured boundary characters
TrimmedPosition(m, s) ==
    HitPosition(IF m.start # 0 THEN m.start + 1 ELSE m.start,
                IF m.end # Len(s) - 1 THEN m.end - 1 ELSE m.end)

\* SortByStart without line 484: the highlights stay in clause order
SortByStartUnsorted(hl) == hl

RECURSIVE InsertByStart(_, _)
InsertByStart(x, sorted) ==
    IF sorted = <<>> THEN <<x>>
    ELSE IF x.start < Head(sorted).start THEN <<x>> \o sorted
    ELSE <<Head(sorted)>> \o InsertByStart(x, Tail(sorted))

\* Line 484: highlights.sort(lambda x, y: cmp(x.start, y.start)), a stable sort
RECURSIVE SortByStart(_)
SortByStart(hl) ==
    IF hl = <<>> THEN <<>>
    ELSE InsertByStart(hl[Len(hl)], SortByStart(SubSeq(hl, 1, Len(hl) - 1)))

\* ------------------------------------------------------------------------
\* SearchResult.calculateKWIC (lines 506-545)

\* How Python resolves the index i of a slice of a string of length n:
\* a negative index counts from the end, and both ends are clamped
PyIndex(i, n) ==
    IF i < 0 THEN (IF i + n < 0 THEN 0 ELSE i + n)
    ELSE IF i > n THEN n ELSE i

\* self.content[a:b]
PySlice(s, a, b) == Slice(s, PyIndex(a, Len(s)), PyIndex(b, Len(s)))

\* Lines 514-515: move backwards until we find a space
RECURSIVE WalkLeft(_, _)
WalkLeft(s, k) == IF k > 0 /\ s[k] # " " THEN WalkLeft(s, k - 1) ELSE k

\* Lines 512-515
startKWIC(hit, s) == WalkLeft(s, hit[1].start - PRECEDING_CHARS)

\* Lines 521-527: the text before the match, then the match between markers
AddHighlight(s, kwicText, from, start, end) ==
    (IF start > from THEN kwicText \o PySlice(s, from, start) ELSE kwicText)
        \o <<"<", "<">> \o PySlice(s, start, end) \o <<">", ">">>

\* Lines 519-532: the highlights from the i-th on, until the text is too long
RECURSIVE Highlights(_, _, _, _)
Highlights(hit, s, i, acc) ==
    IF i > Len(hit) \/ (i > 1 /\ Len(acc.kwicText) > MAX_KWIC_CHARS) THEN acc
    ELSE Highlights(hit, s, i + 1,
                    [kwicText |-> AddHighlight(s, acc.kwicText, acc.startKWIC,
                                               hit[i].start, hit[i].end),
                     startKWIC |-> hit[i].end])

\* Lines 540-541: move forward until we find a space
RECURSIVE WalkRight(_, _)
WalkRight(s, k) == IF k < Len(s) /\ s[k + 1] # " " THEN WalkRight(s, k + 1) ELSE k

\* Lines 535-543: the text after the last highlight
Following(s, acc) ==
    acc.kwicText \o PySlice(s, acc.startKWIC, WalkRight(s, acc.startKWIC + FOLLOWING_CHARS))

\* calculateKWIC (lines 506-545)
calculateKWIC(hit, s) ==
    Following(s, Highlights(hit, s, 1, [kwicText |-> <<>>, startKWIC |-> startKWIC(hit, s)]))

\* ------------------------------------------------------------------------
\* State

VARIABLES
    searchExpression,  \* the query handed to runSearch / tokenize
    cursor,            \* tokenize: number of characters of the query consumed
    currToken,         \* tokenize: <<>> for None, else <<the Token>>
    inLiteral,         \* tokenize: between double quotes?
    tokens,            \* parseList.tokens
    pc,                \* position of the program
    content,           \* content.content, the document
    andClauses,        \* executeSearch: the sorted clause texts
    searchClauses,     \* executeSearch: the compiled patterns, one per clause
    scanStart,         \* executeSearch: where the next anchor search starts
    hits,              \* searchResult.hits
    highlights,        \* the HitPositions of the hit under construction
    match,             \* the anchor match
    startBracket,
    endBracket,
    lastPosition,
    clauseIdx,         \* position of the inner for loop (1-based)
    nextStart,
    bestMatch,
    minDistance,
    failed,
    output             \* SearchResult.__str__: the excerpts built so far, one per hit

tokVars == <<searchExpression, cursor, currToken, inLiteral, tokens>>
searchVars == <<andClauses, searchClauses, scanStart, hits, highlights, match,
                startBracket, endBracket, lastPosition, clauseIdx, nextStart,
                bestMatch, minDistance, failed, output>>
vars == <<tokVars, pc, content, searchVars>>

\* ------------------------------------------------------------------------
\* Inputs

\* Tokenizer.spaces (line 162)
spaces == {" ", ",", ";", "\n", "\r", "\t"}

QueryAlphabet == {"a", DQ, "(", ")", ".", " "}
CharQueries == StringsUpTo(QueryAlphabet, MaxQueryLen)

Pieces == {<<"A","N","D">>, <<"O","R">>, <<"a","n","d">>, <<"O","r">>, <<" ">>, <<",">>}
BoolQueries == {Concat(ps) : ps \in StringsUpTo(Pieces, MaxPieces)}
BoolDocs == {<<>>, <<"a","n","d">>, <<"o","r"," ","A","N","D">>}

SearchQueries ==
    { <<"a">>,
      <<"b"," ","a">>,
      <<"a","s"," ","b">>,
      <<"a","b">>,
      <<"b"," ","a"," ","s">>,
      <<DQ,"a"," ","b",DQ," ","a">> }

DocAlphabet == {"a", "b", "s", " ", "\n"}
ShortDocs == StringsUpTo(DocAlphabet, MaxDocLen)

\* w, then n - 1 times a space and w
RECURSIVE Rep(_, _)
Rep(w, n) == IF n <= 1 THEN w ELSE Rep(w, n - 1) \o <<" ">> \o w

RepWords == {<<"a">>, <<"a"," ","b">>}
RepDocs == {Rep(w, n) : w \in RepWords, n \in 1..MaxRep}

\* Two words with a gap of about MATCH_WINDOW spaces between them
GapWords == {<<"a">>, <<"b">>, <<"a","b">>, <<"b","s">>, <<"b"," ","a">>}
GapDocs == {w1 \o [k \in 1..n |-> " "] \o w2 :
               w1 \in GapWords, w2 \in GapWords,
               n \in (MATCH_WINDOW - GapSlack)..(MATCH_WINDOW + GapSlack)}

Docs == ShortDocs \cup RepDocs \cup GapDocs

\* ------------------------------------------------------------------------
\* Tokenizer.tokenize (lines 167-211), one action per character

InitSearchVars ==
    /\ andClauses = <<>>
    /\ searchClauses = <<>>
    /\ scanStart = 0
    /\ hits = <<>>
    /\ highlights = <<>>
    /\ match = NoMatch
    /\ startBracket = 0
    /\ endBracket = 0
    /\ lastPosition = 0
    /\ clauseIdx = 0
    /\ nextStart = 0
    /\ bestMatch = NoMatch
    /\ minDistance = 0
    /\ failed = FALSE
    /\ output = <<>>

InitTokenize ==
    /\ cursor = 0
    /\ currToken = <<>>
    /\ inLiteral = FALSE
    /\ tokens = <<>>
    /\ pc = "tokenize"

\* Lines 183-195: a separator closes the word in progress
TokenizeSpace ==
    /\ pc = "tokenize"
    /\ cursor < Len(searchExpression)
    /\ searchExpression[cursor + 1] \in spaces
    /\ currToken # <<>>
    /\ LET tk == finalizeExtraction(currToken[1], inLiteral) IN
         IF tk.err
         THEN /\ pc' = "error"
              /\ UNCHANGED <<cursor, currToken, inLiteral, tokens>>
         ELSE /\ inLiteral' = IF tk.isLiteral THEN tk.endSpecial # DQ ELSE FALSE
              /\ tokens' = IF Len(tk.token) > 0 THEN Append(tokens, tk) ELSE tokens
              /\ currToken' = <<>>
              /\ cursor' = cursor + 1
              /\ pc' = pc
    /\ UNCHANGED <<searchExpression, content, searchVars>>

\* Lines 196-198: a separator outside a word is eaten
TokenizeSkip ==
    /\ pc = "tokenize"
    /\ cursor < Len(searchExpression)
    /\ searchExpression[cursor + 1] \in spaces
    /\ currToken = <<>>
    /\ cursor' = cursor + 1
    /\ UNCHANGED <<searchExpression, currToken, inLiteral, tokens, pc, content, searchVars>>

\* Lines 199-200: in the midst of a word
TokenizeAppend ==
    /\ pc = "tokenize"
    /\ cursor < Len(searchExpression)
    /\ searchExpression[cursor + 1] \notin spaces
    /\ currToken # <<>>
    /\ currToken' = <<[currToken[1] EXCEPT !.token = Append(@, searchExpression[cursor + 1])]>>
    /\ cursor' = cursor + 1
    /\ UNCHANGED <<searchExpression, inLiteral, tokens, pc, content, searchVars>>

\* Lines 201-204: a new word starts
TokenizeStart ==
    /\ pc = "tokenize"
    /\ cursor < Len(searchExpression)
    /\ searchExpression[cursor + 1] \notin spaces
    /\ currToken = <<>>
    /\ currToken' = <<NewToken(searchExpression[cursor + 1])>>
    /\ cursor' = cursor + 1
    /\ UNCHANGED <<searchExpression, inLiteral, tokens, pc, content, searchVars>>

\* TokenizeEnd without the length test of line 209
TokenizeEndKeepEmpty ==
    /\ pc = "tokenize"
    /\ cursor = Len(searchExpression)
    /\ IF currToken = <<>>
       THEN /\ pc' = "tokenized"
            /\ UNCHANGED <<currToken, tokens>>
       ELSE LET tk == finalizeExtraction(currToken[1], inLiteral) IN
            IF tk.err
            THEN /\ pc' = "error"
                 /\ UNCHANGED <<currToken, tokens>>
            ELSE /\ tokens' = Append(tokens, tk)
                 /\ currToken' = <<tk>>
                 /\ pc' = "tokenized"
    /\ UNCHANGED <<searchExpression, cursor, inLiteral, content, searchVars>>

\* Lines 206-211: the end of the query closes the word in progress; return
TokenizeEnd ==
    /\ pc = "tokenize"
    /\ cursor = Len(searchExpression)
    /\ IF currToken = <<>>
       THEN /\ pc' = "tokenized"
            /\ UNCHANGED <<currToken, tokens>>
       ELSE LET tk == finalizeExtraction(currToken[1], inLiteral) IN
            IF tk.err
            THEN /\ pc' = "error"
                 /\ UNCHANGED <<currToken, tokens>>
            ELSE /\ tokens' = IF Len(tk.token) > 0 THEN Append(tokens, tk) ELSE tokens
                 /\ currToken' = <<tk>>
                 /\ pc' = "tokenized"
    /\ UNCHANGED <<searchExpression, cursor, inLiteral, content, searchVars>>

\* ------------------------------------------------------------------------
\* SearchExecution.executeSearch (lines 337-489)

\* Lines 339-384: no clause, no search
ExecuteSearchEmpty ==
    /\ pc = "tokenized"
    /\ CollectClauses(tokens, <<>>) = <<>>
    /\ andClauses' = <<>>
    /\ searchClauses' = <<>>
    /\ hits' = <<>>
    /\ pc' = "done"
    /\ UNCHANGED <<tokVars, output, content, scanStart, highlights, match, startBracket,
                   endBracket, lastPosition, clauseIdx, nextStart, bestMatch,
                   minDistance, failed>>

\* Lines 339-394: collect, sort and compile the clauses
ExecuteSearchBegin ==
    /\ pc = "tokenized"
    /\ CollectClauses(tokens, <<>>) # <<>>
    /\ andClauses' = SortLongestFirst(CollectClauses(tokens, <<>>))
    /\ searchClauses' = [k \in DOMAIN andClauses' |-> SearchMatcher(andClauses'[k])]
    /\ hits' = <<>>
    /\ scanStart' = 0
    /\ pc' = "loop"
    /\ UNCHANGED <<tokVars, output, content, highlights, match, startBracket,
                   endBracket, lastPosition, clauseIdx, nextStart, bestMatch,
                   minDistance, failed>>

\* LoopGuard with <= for < in the test of the number of hits
LoopGuardOffByOne == scanStart < Len(content) /\ Len(hits) <= MAX_HITS

\* Line 396
LoopGuard == scanStart < Len(content) /\ Len(hits) < MAX_HITS

\* Line 400
AnchorSearch == search(searchClauses[1].matcher, content, scanStart, Len(content))

\* Line 396: the while condition fails; line 489
LoopExit ==
    /\ pc = "loop"
    /\ ~LoopGuard
    /\ pc' = "done"
    /\ UNCHANGED <<tokVars, content, searchVars>>

\* Lines 400-403: no further anchor
AnchorNone ==
    /\ pc = "loop"
    /\ LoopGuard
    /\ AnchorSearch = NoMatch
    /\ highlights' = <<>>
    /\ pc' = "done"
    /\ UNCHANGED <<tokVars, output, content, andClauses, searchClauses, scanStart, hits, match,
                   startBracket, endBracket, lastPosition, clauseIdx, nextStart,
                   bestMatch, minDistance, failed>>

\* Brackets without the window: the whole rest of the document is searched
BracketsWholeDocument(m, s, from) ==
    [startBracket |-> from, endBracket |-> Len(s)]

\* Brackets without lines 421-422: the bracket may reach back before scanStart
BracketsBehindCursor(m, s, from) ==
    [startBracket |-> IF m.start - MATCH_WINDOW < 0 THEN 0 ELSE m.start - MATCH_WINDOW,
     endBracket |-> IF m.end + MATCH_WINDOW >= Len(s) THEN Len(s)
                                                      ELSE m.end + MATCH_WINDOW]

\* Lines 417-424
Brackets(m, s, from) ==
    LET sb0 == m.start - MATCH_WINDOW
        sb1 == IF sb0 < 0 THEN 0 ELSE sb0
        sb == IF sb1 < from THEN from ELSE sb1
        eb0 == m.end + MATCH_WINDOW
        eb == IF eb0 >= Len(s) THEN Len(s) ELSE eb0
    IN  [startBracket |-> sb, endBracket |-> eb]

\* Lines 398-428: the anchor, its highlight and the bracket around it
AnchorFound ==
    /\ pc = "loop"
    /\ LoopGuard
    /\ AnchorSearch # NoMatch
    /\ match' = AnchorSearch
    /\ highlights' = <<TrimmedPosition(match', content)>>
    /\ startBracket' = Brackets(match', content, scanStart).startBracket
    /\ endBracket' = Brackets(match', content, scanStart).endBracket
    /\ failed' = FALSE
    /\ lastPosition' = match'.end
    /\ clauseIdx' = 2
    /\ pc' = "clause"
    /\ UNCHANGED <<tokVars, output, content, andClauses, searchClauses, scanStart, hits,
                   nextStart, bestMatch, minDistance>>

\* Lines 430-436: the next clause of the for loop
ClauseBegin ==
    /\ pc = "clause"
    /\ clauseIdx <= Len(searchClauses)
    /\ nextStart' = startBracket
    /\ bestMatch' = NoMatch
    /\ minDistance' = 999999
    /\ pc' = "scan"
    /\ UNCHANGED <<tokVars, output, content, andClauses, searchClauses, scanStart, hits,
                   highlights, match, startBracket, endBracket, lastPosition,
                   clauseIdx, failed>>

\* Line 441
OtherSearch == search(searchClauses[clauseIdx].matcher, content, nextStart, endBracket)

\* Lines 446-449
Distance(other, anchor) ==
    IF other.start < anchor.start THEN anchor.start - other.end
                                  ELSE other.start - anchor.end

\* Lines 451-455: the closest candidate so far
ScanUpdate(otherMatch, ourDistance) ==
    /\ bestMatch' = IF ourDistance < minDistance THEN otherMatch ELSE bestMatch
    /\ minDistance' = IF ourDistance < minDistance THEN ourDistance ELSE minDistance
    /\ nextStart' = otherMatch.end + 1

\* Lines 441-455: one more candidate of the clause
ScanCandidate ==
    /\ pc = "scan"
    /\ \E otherMatch \in {OtherSearch} :
          /\ otherMatch # NoMatch
          /\ ScanUpdate(otherMatch, Distance(otherMatch, match))
    /\ UNCHANGED <<tokVars, output, pc, content, andClauses, searchClauses, scanStart, hits,
                   highlights, match, startBracket, endBracket, lastPosition,
                   clauseIdx, failed>>

\* ClauseFailed going on with the next anchor instead of stopping
ClauseFailedContinue ==
    /\ pc = "scan"
    /\ OtherSearch = NoMatch
    /\ bestMatch = NoMatch
    /\ failed' = TRUE
    /\ scanStart' = lastPosition + 1
    /\ pc' = "loop"
    /\ UNCHANGED <<tokVars, output, content, andClauses, searchClauses, hits,
                   highlights, match, startBracket, endBracket, lastPosition,
                   clauseIdx, nextStart, bestMatch, minDistance>>

\* Lines 442-443, 457-459, 476-477, 489: no candidate at all; the search ends
ClauseFailed ==
    /\ pc = "scan"
    /\ OtherSearch = NoMatch
    /\ bestMatch = NoMatch
    /\ failed' = TRUE
    /\ pc' = "done"
    /\ UNCHANGED <<tokVars, output, content, andClauses, searchClauses, scanStart, hits,
                   highlights, match, startBracket, endBracket, lastPosition,
                   clauseIdx, nextStart, bestMatch, minDistance>>

\* Lines 442-443, 461-473: the best candidate becomes a highlight
ClauseMatched ==
    /\ pc = "scan"
    /\ OtherSearch = NoMatch
    /\ bestMatch # NoMatch
    /\ highlights' = Append(highlights, TrimmedPosition(bestMatch, content))
    /\ lastPosition' = IF bestMatch.end > lastPosition THEN bestMatch.end ELSE lastPosition
    /\ clauseIdx' = clauseIdx + 1
    /\ pc' = "clause"
    /\ UNCHANGED <<tokVars, output, content, andClauses, searchClauses, scanStart, hits,
                   match, startBracket, endBracket, nextStart, bestMatch,
                   minDistance, failed>>

\* RecordHit moving past the anchor match only, not past lastPosition
RecordHitPastAnchor ==
    /\ pc = "clause"
    /\ clauseIdx > Len(searchClauses)
    /\ highlights' = SortByStart(highlights)
    /\ hits' = Append(hits, highlights')
    /\ scanStart' = match.end + 1
    /\ pc' = "loop"
    /\ UNCHANGED <<tokVars, output, content, andClauses, searchClauses, match, startBracket,
                   endBracket, lastPosition, clauseIdx, nextStart, bestMatch,
                   minDistance, failed>>

\* Lines 484-487: every clause matched; record the hit and move on
RecordHit ==
    /\ pc = "clause"
    /\ clauseIdx > Len(searchClauses)
    /\ highlights' = SortByStart(highlights)
    /\ hits' = Append(hits, highlights')
    /\ scanStart' = lastPosition + 1
    /\ pc' = "loop"
    /\ UNCHANGED <<tokVars, output, content, andClauses, searchClauses, match, startBracket,
                   endBracket, lastPosition, clauseIdx, nextStart, bestMatch,
                   minDistance, failed>>

\* SearchResult.__str__ (lines 552-554): the excerpt of the next hit
StrNextHit ==
    /\ pc = "done"
    /\ Len(output) < Len(hits)
    /\ output' = Append(output, calculateKWIC(hits[Len(output) + 1], content))
    /\ UNCHANGED <<tokVars, pc, content, andClauses, searchClauses, scanStart, hits,
                   highlights, match, startBracket, endBracket, lastPosition,
                   clauseIdx, nextStart, bestMatch, minDistance, failed>>

\* ------------------------------------------------------------------------
\* Specifications

\* runSearch (lines 573-587): tokenize the query, then search the document
Init ==
    /\ \/ searchExpression \in SearchQueries /\ content \in Docs
       \/ searchExpression \in BoolQueries /\ content \in BoolDocs
    /\ InitTokenize
    /\ InitSearchVars

TokNext ==
    \/ TokenizeSpace
    \/ TokenizeSkip
    \/ TokenizeAppend
    \/ TokenizeStart
    \/ TokenizeEnd

Next ==
    \/ TokNext
    \/ ExecuteSearchEmpty
    \/ ExecuteSearchBegin
    \/ LoopExit
    \/ AnchorNone
    \/ AnchorFound
    \/ ClauseBegin
    \/ ScanCandidate
    \/ ClauseFailed
    \/ ClauseMatched
    \/ RecordHit
    \/ StrNextHit

Spec == Init /\ [][Next]_vars

\* Tokenizer.tokenize alone, on every short query
TokInit ==
    /\ searchExpression \in CharQueries \cup BoolQueries
    /\ content = <<>>
    /\ InitTokenize
    /\ InitSearchVars

TokSpec == TokInit /\ [][TokNext]_vars

\* ------------------------------------------------------------------------
\* Properties of executeSearch

\* The text of a match without what its two boundary groups captured: the
\* occurrence of the clause's term
Occurrence(m) == HitPosition(m.start + m.pre, m.end - m.post)

\* Every clause has its highlight: line 486 is about to append the hit
HitComplete == pc = "clause" /\ clauseIdx > Len(searchClauses)

\* Is the interval a whole word of the full document?
WholeWord(h) ==
    /\ h.start = 0 \/ content[h.start] \in wordBoundaries
    /\ h.end = Len(content) \/ content[h.end + 1] \in wordBoundaries

\* C1: in a hit that is about to be returned, the Span of the anchor and the
\* Span of the clause matched last are exactly the matched occurrences of
\* their terms, without the boundary characters captured around them.
C1_SpanIsOccurrence ==
    HitComplete =>
        /\ highlights[1] = Occurrence(match)
        /\ Len(searchClauses) >= 2 => highlights[Len(highlights)] = Occurrence(bestMatch)

\* C2: in a hit that is about to be returned, the occurrence matched for the
\* anchor and the one matched last inside the window are whole words of the
\* full document: start-of-text or a boundary character before, end-of-text
\* or a boundary character after.
C2_WholeWord ==
    HitComplete =>
        /\ WholeWord(Occurrence(match))
        /\ Len(searchClauses) >= 2 => WholeWord(Occurrence(bestMatch))

\* The interval [anchorMatchStart - window, anchorMatchEnd + window] clipped
\* to the document
WindowLo == IF match.start - MATCH_WINDOW < 0 THEN 0 ELSE match.start - MATCH_WINDOW
WindowHi == IF match.end + MATCH_WINDOW > Len(content) THEN Len(content)
                                                       ELSE match.end + MATCH_WINDOW

\* Does the text of clause k (one of its alternatives) occur inside lo..hi?
OccursWithin(k, lo, hi) ==
    \E q \in lo..hi : \E a \in DOMAIN searchClauses[k].matcher :
        MatchElems(searchClauses[k].matcher[a].elems, content, q, hi) # -1

\* C3: the Span of every non-anchor clause of the hit under construction lies
\* inside the window around the anchor match, clipped to the document; and a
\* hit is only completed when every clause occurs inside that window.
C3_InsideWindow ==
    /\ pc \in {"clause", "scan"} =>
          \A k \in 2..Len(highlights) :
              WindowLo <= highlights[k].start /\ highlights[k].end <= WindowHi
    /\ HitComplete =>
          \A k \in 2..Len(searchClauses) : OccursWithin(k, WindowLo, WindowHi)

\* A hit of two clauses or more was recorded although the document goes on
\* past the window around its anchor
C3_Witness ==
    /\ pc = "loop"
    /\ hits # <<>>
    /\ Len(searchClauses) >= 2
    /\ match.end + MATCH_WINDOW < Len(content)

\* C4: every recorded hit has exactly one Span per clause of the query, and
\* its Spans are ordered by non-decreasing start offset.
C4_OneSpanPerClause ==
    \A k \in DOMAIN hits :
        /\ Len(hits[k]) = Len(andClauses)
        /\ \A j \in 1..(Len(hits[k]) - 1) : hits[k][j].start <= hits[k][j + 1].start

\* A hit of three clauses whose anchor is not its first Span
C4_Witness ==
    /\ hits # <<>>
    /\ Len(andClauses) = 3
    /\ pc = "loop"
    /\ highlights[1].start < match.start

\* C5: at every point the number of hits is at most MAX_HITS.
C5_AtMostMaxHits == Len(hits) <= MAX_HITS

\* The search returned MAX_HITS hits although the anchor clause matches again
\* after the last of them
C5_Witness ==
    /\ pc = "done"
    /\ Len(hits) = MAX_HITS
    /\ scanStart < Len(content)
    /\ AnchorSearch # NoMatch

\* C6: every Span of the hit under construction starts at or after scanStart,
\* which is strictly greater than the end of every Span of the hit recorded
\* before it; so the Spans of consecutive hits never overlap and the anchors
\* strictly increase.
C6_NonOverlapping ==
    /\ pc \in {"clause", "scan"} =>
          /\ match.start >= scanStart
          /\ \A k \in DOMAIN highlights : highlights[k].start >= scanStart
          /\ hits # <<>> =>
                \A j \in DOMAIN hits[Len(hits)] : hits[Len(hits)][j].end < scanStart
    /\ \A k \in 1..(Len(hits) - 1) :
          \A i \in DOMAIN hits[k] : \A j \in DOMAIN hits[k + 1] :
              hits[k][i].end < hits[k + 1][j].start

\* A second hit of two clauses is being recorded
C6_Witness ==
    /\ Len(hits) >= 2
    /\ Len(searchClauses) >= 2
    /\ pc = "loop"

\* ------------------------------------------------------------------------
\* Properties of tokenize

\* The separator-delimited words of a query, in order
RECURSIVE SplitWords(_, _)
SplitWords(q, word) ==
    IF q = <<>> THEN (IF word = <<>> THEN <<>> ELSE <<word>>)
    ELSE IF Head(q) \in spaces
    THEN (IF word = <<>> THEN <<>> ELSE <<word>>) \o SplitWords(Tail(q), <<>>)
    ELSE SplitWords(Tail(q), Append(word, Head(q)))

\* A query of letters and separators only
PlainQuery(q) == \A k \in DOMAIN q : isalpha(q[k]) \/ q[k] \in spaces

NotBooleanWord(w) == w # <<"A","N","D">> /\ w # <<"O","R">>

\* The words of a query other than the exact words AND and OR
RetainedWords(q) == SelectSeq(SplitWords(q, <<>>), NotBooleanWord)

\* C7: the terms of a query of letters and separators are its words other
\* than the exact uppercase AND and OR (so and, Or, ... are kept), none of
\* them literal; when no word is left there is no clause, the search never
\* enters its scanning loop and returns no hit, without an error.
C7_BooleanWordsDropped ==
    PlainQuery(searchExpression) =>
        /\ pc # "error"
        /\ pc # "tokenize" =>
              /\ [k \in DOMAIN tokens |-> tokens[k].token] = RetainedWords(searchExpression)
              /\ \A k \in DOMAIN tokens : ~tokens[k].isLiteral
        /\ RetainedWords(searchExpression) = <<>> =>
              /\ pc \in {"tokenize", "tokenized", "done"}
              /\ hits = <<>>
              /\ andClauses = <<>>
              /\ searchClauses = <<>>

\* The search of a non-empty document returned for a query of boolean words
C7_Witness ==
    /\ pc = "done"
    /\ SplitWords(searchExpression, <<>>) # <<>>
    /\ RetainedWords(searchExpression) = <<>>
    /\ content # <<>>

\* A non-empty text without separator or double quote, wrapped in double quotes
QuotedTerm(q) ==
    /\ Len(q) >= 3
    /\ q[1] = DQ
    /\ q[Len(q)] = DQ
    /\ \A k \in 2..(Len(q) - 1) : q[k] \notin spaces /\ q[k] # DQ

\* C8: a query "X" tokenizes to the single literal term X, unchanged apart
\* from the two quotes, and literal mode is not left open.
C8_QuotedTermVerbatim ==
    (pc = "tokenized" /\ QuotedTerm(searchExpression)) =>
        /\ Len(tokens) = 1
        /\ tokens[1].token = SubSeq(searchExpression, 2, Len(searchExpression) - 1)
        /\ tokens[1].isLiteral
        /\ ~inLiteral

\* The number of double quotes of a query
RECURSIVE CountQuotes(_)
CountQuotes(q) ==
    IF q = <<>> THEN 0
    ELSE (IF Head(q) = DQ THEN 1 ELSE 0) + CountQuotes(Tail(q))

\* Balanced double quotes, each the first or the last character of its word,
\* around words of lower-case letters (which finalizeExtraction never trims
\* or drops)
EdgeQuotes(q) ==
    /\ CountQuotes(q) % 2 = 0
    /\ \A k \in DOMAIN q : q[k] = DQ \/ q[k] \in Range(LowerCase) \/ q[k] \in spaces
    /\ \A k \in DOMAIN q :
          q[k] = DQ => \/ k = 1 \/ q[k - 1] \in spaces
                       \/ k = Len(q) \/ q[k + 1] \in spaces

\* Quotes paired left to right: for every word with text between its quotes,
\* whether that text lies between an opening quote and its closing quote
RECURSIVE BetweenQuotes(_, _)
BetweenQuotes(words, open) ==
    IF words = <<>> THEN <<>>
    ELSE LET w == Head(words)
             leading == w[1] = DQ
             trailing == Len(w) >= 2 /\ w[Len(w)] = DQ
             inside == IF leading THEN ~open ELSE open
             text == SubSeq(w, IF leading THEN 2 ELSE 1,
                               IF trailing THEN Len(w) - 1 ELSE Len(w))
         IN  (IF text # <<>> THEN <<inside>> ELSE <<>>)
             \o BetweenQuotes(Tail(words), IF trailing THEN ~inside ELSE inside)

\* C9: in a query with balanced quotes at the edges of its words, a retained
\* term is literal exactly when it lies between an opening quote and its
\* closing quote.
C9_LiteralBetweenQuotes ==
    (pc = "tokenized" /\ EdgeQuotes(searchExpression)) =>
        [k \in DOMAIN tokens |-> tokens[k].isLiteral]
            = BetweenQuotes(SplitWords(searchExpression, <<>>), FALSE)

\* A word is complete: tokenize is about to call finalizeExtraction on it
AtFinalize ==
    /\ pc = "tokenize"
    /\ currToken # <<>>
    /\ \/ cursor = Len(searchExpression)
       \/ searchExpression[cursor + 1] \in spaces

\* The rule of the parentheses, between a term and its finalized text
ParenRule(raw, out) ==
    /\ (raw[1] = "(" /\ LastChar(raw) = ")") => out = raw
    /\ (raw[1] = "(" /\ LastChar(raw) # ")") => (out = <<>> \/ out[1] # "(")
    /\ (LastChar(raw) = ")" /\ Contains(raw, "(")) => (out # <<>> /\ LastChar(out) = ")")
    /\ (LastChar(raw) = ")" /\ ~Contains(raw, "(")) => (out = <<>> \/ LastChar(out) # ")")
    /\ (out # <<>> /\ out[1] = "(") => LastChar(out) = ")"
    /\ (out # <<>> /\ LastChar(out) = ")") => Contains(out, "(")

\* C10: for a term without double quote finalized outside literal mode, a
\* leading ( is stripped unless the term ends with ), and then the term is
\* returned unchanged; a trailing ) is stripped unless the term contains a (,
\* and then it is kept; the result begins with ( only if it ends with ) and
\* ends with ) only if it contains (.
C10_ParenthesesRule ==
    (AtFinalize /\ ~inLiteral /\ ~Contains(currToken[1].token, DQ)) =>
        ParenRule(currToken[1].token, finalizeExtraction(currToken[1], FALSE).token)

\* The query "(a ()" was tokenized: the first term lost its parenthesis, the
\* second kept both
C10_Witness ==
    /\ pc = "tokenized"
    /\ searchExpression = <<"(","a"," ","(",")">>
    /\ [k \in DOMAIN tokens |-> tokens[k].token] = << <<"a">>, <<"(",")">> >>

\* ------------------------------------------------------------------------
\* Properties of tokenize, continued

\* C11: for every query, tokenize raises no error (no character access out of
\* range in finalizeExtraction), never stops before the end of the query, and
\* every term of the sequence it builds has non-empty text.
C11_NoErrorNoEmptyTerm ==
    /\ pc # "error"
    /\ pc = "tokenize" => ENABLED TokNext
    /\ \A k \in DOMAIN tokens : Len(tokens[k].token) > 0

\* A lone quote, a term of punctuation only and a lone parenthesis: tokenize
\* returns, and none of the three became a term
C11_Witness ==
    /\ pc = "tokenized"
    /\ searchExpression = <<DQ, " ", ".", " ", "(">>
    /\ tokens = <<>>

\* ------------------------------------------------------------------------
\* Properties of calculateKWIC

\* Where the range an excerpt covers begins: where the slice of line 524 begins
\* when it adds text before the first Span, else at the first Span
LeftEdge(raw, n, first) ==
    IF first > raw /\ PyIndex(raw, n) < first THEN PyIndex(raw, n) ELSE first

\* Where the range an excerpt covers ends: where the slice of line 543 ends
RightEdge(hit, s) ==
    PyIndex(WalkRight(s, Highlights(hit, s, 1, [kwicText |-> <<>>, startKWIC |-> 0]).startKWIC
                            + FOLLOWING_CHARS),
            Len(s))

\* The edges left and right do not split a word of s, and the text starts
\* with s from left up to the first Span of hit, and then the opening marker
WordAligned(hit, s, kwicText, left, right) ==
    /\ left = 0 \/ s[left] = " "
    /\ right = Len(s) \/ s[right + 1] = " "
    /\ Len(kwicText) >= hit[1].start - left + 2
    /\ SubSeq(kwicText, 1, hit[1].start - left + 2)
           = Slice(s, left, hit[1].start) \o <<"<", "<">>

\* C12: for every Hit, the excerpt of calculateKWIC covers a range of the
\* document whose left edge is offset 0 or immediately follows a space and
\* whose right edge is the end of the document or falls on a space, and the
\* excerpt holds the text from that left edge up to the first Span; also when
\* the first Span is fewer than PRECEDING_CHARS characters from the start.
C12_ExcerptWordAligned ==
    \A k \in DOMAIN output :
        WordAligned(hits[k], content, output[k],
                    LeftEdge(startKWIC(hits[k], content), Len(content), hits[k][1].start),
                    RightEdge(hits[k], content))

\* ------------------------------------------------------------------------
\* Properties of the scan of the candidates

\* The clause just matched, its selection in bestMatch
ClauseSelected == pc = "clause" /\ clauseIdx > 2

\* The candidate m, if it is a match, is not closer to the anchor than
\* distance d, and at distance d it does not start before bestMatch
NotCloser(m, d) ==
    m # NoMatch =>
        \/ Distance(m, match) > d
        \/ Distance(m, match) = d /\ bestMatch.start <= m.start

\* C13: the occurrence selected for a non-anchor clause has the minimum
\* distance to the anchor among all the whole-word occurrences of the clause
\* inside the window, those that share a boundary character with another
\* occurrence included; among equal distances it is the earliest.
C13_ClosestOccurrence ==
    ClauseSelected =>
        \A p \in startBracket..endBracket :
            NotCloser(MatchAt(searchClauses[clauseIdx - 1].matcher, content, p, endBracket),
                      Distance(bestMatch, match))

\* ------------------------------------------------------------------------
\* Properties of the main loop

\* The clause under scan has no match at all inside the window
FailedWindow == pc = "scan" /\ bestMatch = NoMatch /\ OtherSearch = NoMatch

\* C14: when a clause has no match inside the window of an anchor, the search
\* stops and returns exactly the hits recorded before that anchor: no hit is
\* appended, scanStart is not advanced and no other anchor is tried, from
\* then on.
C14_StopOnFailedWindow ==
    [][(FailedWindow \/ failed) =>
          /\ pc' = "done"
          /\ failed'
          /\ hits' = hits
          /\ scanStart' = scanStart]_vars

\* An anchor match m after which every other clause has a match in its window
WouldHit(m, from) ==
    /\ m # NoMatch
    /\ \A k \in 2..Len(searchClauses) :
          search(searchClauses[k].matcher, content,
                 Brackets(m, content, from).startBracket,
                 Brackets(m, content, from).endBracket) # NoMatch

\* The search stopped on a failed window although a later occurrence of the
\* anchor has all the other clauses within its window
C14_Witness ==
    /\ pc = "done"
    /\ failed
    /\ \E p \in (lastPosition + 1)..Len(content) :
          WouldHit(MatchAt(searchClauses[1].matcher, content, p, Len(content)),
                   lastPosition + 1)

\* executeSearch is running
Searching == pc \in {"loop", "clause", "scan"}

\* One iteration of the main loop ends by recording a hit
HitRecorded == pc = "clause" /\ pc' = "loop"

\* One more candidate of the clause under scan has been looked at
CandidateScanned == pc = "scan" /\ pc' = "scan"

\* What is left of the document for the main loop
LeftToScan == Len(content) + 1 - scanStart

\* What is left of one iteration of the main loop: the anchor, then for each
\* other clause its start and its scan, in the order of the clauses
LeftOfIteration ==
    IF pc = "loop" THEN 2 * Len(searchClauses) + 3
    ELSE IF pc = "clause" THEN 2 * (Len(searchClauses) + 1 - clauseIdx) + 2
    ELSE IF pc = "scan" THEN 2 * (Len(searchClauses) + 1 - clauseIdx) + 1
    ELSE 0

\* What is left of the window for the scan of the candidates of a clause
LeftOfWindow == IF pc = "scan" THEN endBracket + 2 - nextStart ELSE 0

\* C15: executeSearch terminates.  What is left to do is never negative and
\* every step takes from it: an iteration of the main loop
\* that does not end the scan records one hit and sets scanStart to a value
\* greater than it was and greater than the end of every Span of that hit,
\* each step of the scan of a clause's candidates moves nextStart forward
\* inside the window, and every other step moves on within the iteration.
C15_Terminates ==
    /\ [](Searching => LeftToScan >= 0 /\ LeftOfIteration >= 0 /\ LeftOfWindow >= 0)
    /\ [][/\ HitRecorded =>
                /\ Len(hits') = Len(hits) + 1
                /\ scanStart' > scanStart
                /\ \A k \in DOMAIN highlights' : highlights'[k].end < scanStart'
          /\ CandidateScanned => nextStart' > nextStart
          /\ Searching =>
                \/ LeftToScan' < LeftToScan
                \/ LeftToScan' = LeftToScan /\ LeftOfIteration' < LeftOfIteration
                \/ /\ LeftToScan' = LeftToScan
                   /\ LeftOfIteration' = LeftOfIteration
                   /\ LeftOfWindow' < LeftOfWindow]_vars

\* The search ran to the end of the document, over several hits of several
\* clauses each
C15_Witness ==
    /\ pc = "done"
    /\ ~failed
    /\ Len(searchClauses) >= 2
    /\ Len(hits) >= 2
    /\ scanStart >= Len(content)

====
